---- MODULE Spec2Model ----
(***************************************************************************)
(* Model of tools/bluefin-cherry-picker.py: the GitRepo helper and the     *)
(* CherryPickerTool run (setup_remote, get_commits_since, the bot filter,  *)
(* the per-commit inspection and the merge-tree oracle), plus main's       *)
(* top-level handlers.                                                     *)
(*                                                                         *)
(* Text is modelled as a sequence of tokens.  "\n" and " " are the         *)
(* whitespace tokens, "|" is the record delimiter of the log format.       *)
(* A Python exception is modelled by its class name; SystemExit and        *)
(* KeyboardInterrupt derive from BaseException only.                       *)
(***************************************************************************)
EXTENDS Integers, Sequences, FiniteSets, TLC

\* ---------------------------------------------------------------- bounds
MaxCommits == 2      \* commits in the lookback window of the remote branch
MaxRuns    == 2      \* invocations of the tool on the same repository
MaxLines   == 3      \* lines of a merge-tree transcript
MaxRecords == 2      \* history lines handed to the record parser
MaxSubject == 2      \* tokens of a commit subject handed to the parser

\* ------------------------------------------------------- process results
\* What a git child process can do when subprocess.run starts it: exit 0,
\* exit non-zero, fail to start (OSError), or be cut by the user's Ctrl-C.
Outcomes == {"ok", "nonzero", "oserror", "interrupt"}

\* class hierarchy: is the exception caught by "except Exception"
IsException(exc) == exc \in {"OSError", "CalledProcessError"}

Return(rc) == [kind |-> "return", returncode |-> rc, exc |-> ""]
Raise(e)   == [kind |-> "raise", returncode |-> 0, exc |-> e]

\* run_git_command with "check" honoured only for exit status 0
RunGitCommand_nocheck(outcome, check) ==
    CASE outcome = "ok"        -> Return(0)
      [] outcome = "nonzero"   -> Return(1)
      [] outcome = "oserror"   -> Raise("OSError")
      [] outcome = "interrupt" -> Raise("KeyboardInterrupt")

\* GitRepo.run_git_command: subprocess.run(check=check); a CalledProcessError
\* (raised only when check is set) is turned into sys.exit(1).
RunGitCommand(outcome, check) ==
    CASE outcome = "ok"                -> Return(0)
      [] outcome = "nonzero" /\ check  -> Raise("SystemExit")
      [] outcome = "nonzero" /\ ~check -> Return(1)
      [] outcome = "oserror"           -> Raise("OSError")
      [] outcome = "interrupt"         -> Raise("KeyboardInterrupt")

\* ------------------------------------------------------------ text tools
IsSpace(c) == c \in {" ", "\n"}

RECURSIVE LStrip(_)
LStrip(s) == IF s = <<>> THEN s
             ELSE IF IsSpace(Head(s)) THEN LStrip(Tail(s)) ELSE s

RECURSIVE RStrip(_)
RStrip(s) == IF s = <<>> THEN s
             ELSE IF IsSpace(s[Len(s)]) THEN RStrip(SubSeq(s, 1, Len(s) - 1)) ELSE s

\* str.strip()
Strip(s) == RStrip(LStrip(s))

\* position of the first occurrence of token sep in s, 0 if none
FirstIndex(s, sep) ==
    IF \E k \in 1..Len(s) : s[k] = sep
    THEN CHOOSE k \in 1..Len(s) : s[k] = sep /\ \A j \in 1..(k - 1) : s[j] # sep
    ELSE 0

\* str.split(sep, maxsplit); maxsplit < 0 means no limit
RECURSIVE SplitMax(_, _, _)
SplitMax(s, sep, maxsplit) ==
    LET k == FirstIndex(s, sep) IN
    IF maxsplit = 0 \/ k = 0 THEN <<s>>
    ELSE <<SubSeq(s, 1, k - 1)>> \o SplitMax(SubSeq(s, k + 1, Len(s)), sep, maxsplit - 1)

Split(s, sep) == SplitMax(s, sep, -1)

\* "sub in s" for strings
Contains(sub, s) ==
    \E k \in 0..(Len(s) - Len(sub)) : SubSeq(s, k + 1, k + Len(sub)) = sub

\* "x in list"
InSeq(x, seq) == \E k \in 1..Len(seq) : seq[k] = x

SeqToSet(seq) == {seq[k] : k \in 1..Len(seq)}

\* ---------------------------------------------------- get_commits_since
\* the pretty format "%H|%an|%ai|%s" applied to one commit
FormatLine(c) == c.hash \o <<"|">> \o c.author \o <<"|">> \o c.date \o <<"|">> \o c.subject

\* git log prints one formatted line per commit, separated by newlines
RECURSIVE LogOutput(_)
LogOutput(cs) ==
    IF cs = <<>> THEN <<>>
    ELSE IF Len(cs) = 1 THEN FormatLine(cs[1])
    ELSE FormatLine(cs[1]) \o <<"\n">> \o LogOutput(Tail(cs))

\* line.split('|'): no bound, a '|' of the subject makes a fifth part
SplitRecord_unbounded(line) == Split(line, "|")

\* line.split('|', 3)
SplitRecord(line) == SplitMax(line, "|", 3)

\* the loop body of get_commits_since (exclude_author is never passed)
RECURSIVE ParseLines(_)
ParseLines(lines) ==
    IF lines = <<>> THEN <<>>
    ELSE LET line  == Head(lines)
             parts == SplitRecord(line)
         IN  IF Strip(line) # <<>> /\ Len(parts) = 4
             THEN <<[hash |-> parts[1], author |-> parts[2],
                     date |-> parts[3], subject |-> parts[4]]>> \o ParseLines(Tail(lines))
             ELSE ParseLines(Tail(lines))

\* result.stdout.strip().split('\n') and the loop over it
ParseLog(stdout) == ParseLines(Split(Strip(stdout), "\n"))

\* ------------------------------------------------ can_cherry_pick_cleanly
\* A transcript line is classified by what the scan looks at:
\*   "hunk"   starts with '@@'
\*   "plus"   starts with '+++' and is not '+++ /dev/null'; file = line[6:]
\*   "null"   is '+++ /dev/null'
\*   "minus"  starts with '---'
\*   "marker" contains '<<<<<<<', '>>>>>>>' or '=======' (and is none of the above)
\*   "text"   anything else
\* current_file is "" while it is None; a '+++' line of six characters or
\* fewer also yields "" (both are falsy for "if current_file").
Files == {"f1", "f2"}

LineClasses ==
    {[t |-> k, file |-> ""] : k \in {"hunk", "null", "minus", "marker", "text"}}
    \cup {[t |-> "plus", file |-> f] : f \in Files \cup {""}}

RECURSIVE ScanLines(_, _, _)
ScanLines(lines, current_file, conflicts) ==
    IF lines = <<>> THEN conflicts
    ELSE LET line == Head(lines)
             rest == Tail(lines)
         IN  CASE line.t = "hunk" ->
                    ScanLines(rest, current_file,
                              IF current_file # "" THEN Append(conflicts, current_file)
                              ELSE conflicts)
               [] line.t \in {"plus", "null", "minus"} ->
                    ScanLines(rest,
                              IF line.t = "plus" THEN line.file ELSE current_file,
                              conflicts)
               [] line.t = "marker" ->
                    ScanLines(rest, current_file,
                              IF current_file # "" /\ ~InSeq(current_file, conflicts)
                              THEN Append(conflicts, current_file)
                              ELSE conflicts)
               [] OTHER -> ScanLines(rest, current_file, conflicts)

\* "if merge_result.stdout.strip():" guards the scan; a transcript without
\* lines is the empty output
ScanTranscript(transcript) ==
    IF transcript # <<>> THEN ScanLines(transcript, "", <<>>) ELSE <<>>

\* has_conflicts = len(conflicts) > 1
HasConflicts_offbyone(conflicts) == Len(conflicts) > 1

\* has_conflicts = len(conflicts) > 0
HasConflicts(conflicts) == Len(conflicts) > 0

\* the three dictionaries the function can return; method "" is a missing key
Verdict(can_apply, conflicts, method, error) ==
    [can_apply |-> can_apply, conflicts |-> conflicts, method |-> method, error |-> error]

Returned(v) == [kind |-> "return", value |-> v, exc |-> ""]
Raised(e)   == [kind |-> "raise", value |-> Verdict(FALSE, <<>>, "", ""), exc |-> e]

\* GitRepo.can_cherry_pick_cleanly: rev-parse (check=True), then merge-tree
\* (check=False) and the scan of its stdout, inside the two try blocks.
CanCherryPickCleanly(revOutcome, mtOutcome, transcript) ==
    LET parent_result == RunGitCommand(revOutcome, TRUE)
        merge_result  == RunGitCommand(mtOutcome, FALSE)
        conflicts     == ScanTranscript(transcript)
        outer(exc)    == IF IsException(exc)
                         THEN Returned(Verdict(FALSE, <<>>, "", exc))
                         ELSE Raised(exc)
    IN  IF parent_result.kind = "raise" THEN outer(parent_result.exc)
        ELSE IF merge_result.kind = "raise"
             THEN IF merge_result.exc = "CalledProcessError"
                  THEN Returned(Verdict(FALSE, <<>>, "unknown", "Could not test with merge-tree"))
                  ELSE outer(merge_result.exc)
             ELSE Returned(Verdict(~HasConflicts(conflicts), conflicts, "merge-tree", ""))

\* is merge-tree started at all
MergeTreeIssued(revOutcome) == RunGitCommand(revOutcome, TRUE).kind = "return"

\* ------------------------------------------------------------ bot filter
bot_authors ==
    { <<"ubot-7274", "[bot]">>, <<"renovate", "[bot]">>, <<"github-actions", "[bot]">>,
      <<"dependabot", "[bot]">>, <<"blacksmith-sh", "[bot]">> }

\* any(bot == commit['author'] ...): exact match instead of substring
IsBot_exact(author) == \E bot \in bot_authors : bot = author

\* any(bot in commit['author'] for bot in bot_authors)
IsBot(author) == \E bot \in bot_authors : Contains(bot, author)

\* the loop building filtered_commits, in the order of commits
FilterCommits(commits) == SelectSeq(commits, LAMBDA c : ~IsBot(c.author))

\* ------------------------------------------------------------- git itself
\* the command can_cherry_pick_cleanly would run if it tried a real pick
MergeTreeVerb_pick == "cherry-pick"

\* the command can_cherry_pick_cleanly runs for the simulation
MergeTreeVerb == "merge-tree"

SetupVerbs     == {"remote add", "fetch", "log"}
PerCommitVerbs == {"diff-tree", "rev-parse", MergeTreeVerb, "show"}
MutatingVerbs  == {"cherry-pick", "merge", "checkout", "reset", "commit"}

InitRepo(remotes) ==
    [remotes |-> remotes, fetched |-> {}, head |-> "tip", index |-> "clean", worktree |-> "clean"]

\* what the child process really does: "remote add" of a configured name
\* and "fetch" of an unknown name exit non-zero whatever else happens
GitOutcome(verb, o, name, r) ==
    IF o = "ok" /\ verb = "remote add" /\ name \in r.remotes THEN "nonzero"
    ELSE IF o = "ok" /\ verb = "fetch" /\ name \notin r.remotes THEN "nonzero"
    ELSE o

\* the effect of a git command that exits 0 on the local repository
GitEffect(verb, o, name, r) ==
    IF GitOutcome(verb, o, name, r) # "ok" THEN r
    ELSE CASE verb = "remote add" -> [r EXCEPT !.remotes = @ \cup {name}]
           [] verb = "fetch"      -> [r EXCEPT !.fetched = @ \cup {name}]
           [] verb \in MutatingVerbs ->
                [r EXCEPT !.head = "moved", !.index = "dirty", !.worktree = "dirty"]
           [] OTHER -> r

Failing(o) == o \in {"nonzero", "oserror"}

\* ------------------------------------------------------------------ state
VARIABLES
    pc,                  \* position of the run
    runs,                \* invocations of the tool so far
    repo,                \* the local repository
    ours,                \* --ours
    test_compatibility,  \* not --no-test
    show_diffs,          \* --show-diffs
    history,             \* authors of the commits of the remote branch in the window
    commits,             \* show_status: commits
    filtered_commits,    \* show_status: filtered_commits
    idx,                 \* show_status: position of the loop over filtered_commits
    entry,               \* what _display_commit_rich has gathered for the current commit
    processed,           \* hashes _display_commit_rich was called with, in order
    reported,            \* hashes whose panel was printed, in order
    exitCode,            \* exit status of the process, -1 while it runs
    issued,              \* git commands started in this run
    failed,              \* git commands of this run that exited non-zero or could not start
    interrupted,         \* the user interrupted this run
    configuredAtStart,   \* was the remote configured when this run started
    inp,                 \* input of the function under test (function specifications)
    out                  \* its result

vars == <<pc, runs, repo, ours, test_compatibility, show_diffs, history, commits,
          filtered_commits, idx, entry, processed, reported, exitCode, issued, failed,
          interrupted, configuredAtStart, inp, out>>

runVars == <<pc, runs, repo, ours, test_compatibility, show_diffs, history, commits,
             filtered_commits, idx, entry, processed, reported, exitCode, issued, failed,
             interrupted, configuredAtStart>>

\* CherryPickerTool.__init__: other_project
OtherProject(o) == IF o = "aurora" THEN "bluefin" ELSE "aurora"

Authors ==
    { <<"alice">>, <<"renovate", "[bot]">>, <<"my-", "dependabot", "[bot]">>, <<"renovate">> }

Hashes == <<"c1", "c2", "c3", "c4">>

\* the commits git log walks, most recent first
Window(h) ==
    [i \in 1..Len(h) |-> [hash |-> <<Hashes[i]>>, author |-> h[i],
                          date |-> <<"2025-06-01">>, subject |-> <<"fix", "|", "(#12)">>]]

Histories == UNION {[1..n -> Authors] : n \in 0..MaxCommits}

SampleTranscripts ==
    { <<>>,
      <<[t |-> "plus", file |-> "f1"], [t |-> "hunk", file |-> ""]>>,
      <<[t |-> "plus", file |-> "f1"], [t |-> "marker", file |-> ""]>>,
      <<[t |-> "marker", file |-> ""]>> }

NoVerdict == Verdict(FALSE, <<>>, "", "")
NoEntry ==
    [hash |-> <<>>, files |-> "", files_error |-> "", tested |-> FALSE,
     compat |-> NoVerdict, diff |-> "", faults |-> {}]
NoOut == [kind |-> "none"]

\* main: both handlers and an escaping sys.exit(1) end the process with 1
MainExit(exc) ==
    CASE exc = "KeyboardInterrupt" -> 1
      [] IsException(exc)          -> 1
      [] exc = "SystemExit"        -> 1

StartOfRun(r, o) ==
    /\ pc = "has_remote"
    /\ commits = <<>> /\ filtered_commits = <<>> /\ idx = 0
    /\ entry = NoEntry /\ processed = <<>> /\ reported = <<>>
    /\ exitCode = -1 /\ issued = {} /\ failed = {} /\ interrupted = FALSE
    /\ configuredAtStart = (OtherProject(o) \in r.remotes)

Init ==
    /\ runs = 1
    /\ ours \in {"aurora", "bluefin"}
    /\ repo \in {InitRepo({"origin"}), InitRepo({"origin", OtherProject(ours)})}
    /\ test_compatibility \in BOOLEAN
    /\ show_diffs \in BOOLEAN
    /\ history \in Histories
    /\ StartOfRun(repo, ours)
    /\ inp = <<>> /\ out = NoOut

\* bookkeeping of one started git command
Record(verbs, fails, intr) ==
    /\ issued' = issued \cup verbs
    /\ failed' = failed \cup fails
    /\ interrupted' = (interrupted \/ intr)

Terminate(code) == pc' = "done" /\ exitCode' = code

\* GitRepo.has_remote, called by setup_remote: the bare except turns every
\* raise of run_git_command into "no such remote"
HasRemote ==
    /\ pc = "has_remote"
    /\ \E o \in Outcomes :
         LET name   == OtherProject(ours)
             result == RunGitCommand(o, TRUE)
             found  == IF result.kind = "return" THEN name \in repo.remotes ELSE FALSE
         IN  /\ Record({"remote"}, IF Failing(o) THEN {"remote"} ELSE {}, o = "interrupt")
             /\ repo' = GitEffect("remote", o, name, repo)
             /\ pc' = IF found THEN "fetch_remote" ELSE "add_remote"
    /\ UNCHANGED <<runs, ours, test_compatibility, show_diffs, history, commits,
                   filtered_commits, idx, entry, processed, reported, exitCode,
                   configuredAtStart, inp, out>>

\* GitRepo.add_remote
AddRemote ==
    /\ pc = "add_remote"
    /\ \E o \in Outcomes :
         LET name   == OtherProject(ours)
             eff    == GitOutcome("remote add", o, name, repo)
             result == RunGitCommand(eff, TRUE)
         IN  /\ Record({"remote add"}, IF Failing(eff) THEN {"remote add"} ELSE {},
                       eff = "interrupt")
             /\ repo' = GitEffect("remote add", o, name, repo)
             /\ IF result.kind = "return"
                THEN pc' = "fetch_remote" /\ UNCHANGED exitCode
                ELSE Terminate(MainExit(result.exc))
    /\ UNCHANGED <<runs, ours, test_compatibility, show_diffs, history, commits,
                   filtered_commits, idx, entry, processed, reported,
                   configuredAtStart, inp, out>>

\* GitRepo.fetch_remote
FetchRemote ==
    /\ pc = "fetch_remote"
    /\ \E o \in Outcomes :
         LET name   == OtherProject(ours)
             eff    == GitOutcome("fetch", o, name, repo)
             result == RunGitCommand(eff, TRUE)
         IN  /\ Record({"fetch"}, IF Failing(eff) THEN {"fetch"} ELSE {}, eff = "interrupt")
             /\ repo' = GitEffect("fetch", o, name, repo)
             /\ IF result.kind = "return"
                THEN pc' = "get_commits" /\ UNCHANGED exitCode
                ELSE Terminate(MainExit(result.exc))
    /\ UNCHANGED <<runs, ours, test_compatibility, show_diffs, history, commits,
                   filtered_commits, idx, entry, processed, reported,
                   configuredAtStart, inp, out>>

\* show_status from get_commits_since to the head of the loop
GetCommits ==
    /\ pc = "get_commits"
    /\ \E o \in Outcomes :
         LET result == RunGitCommand(o, TRUE)
             parsed == ParseLog(LogOutput(Window(history)))
             kept   == FilterCommits(parsed)
         IN  /\ Record({"log"}, IF Failing(o) THEN {"log"} ELSE {}, o = "interrupt")
             /\ repo' = GitEffect("log", o, OtherProject(ours), repo)
             /\ IF result.kind = "return"
                THEN /\ commits' = parsed
                     /\ filtered_commits' = kept
                     /\ IF kept = <<>>
                        THEN Terminate(0) /\ UNCHANGED idx
                        ELSE pc' = "file_changes" /\ idx' = 1 /\ UNCHANGED exitCode
                ELSE /\ Terminate(MainExit(result.exc))
                     /\ UNCHANGED <<commits, filtered_commits, idx>>
    /\ UNCHANGED <<runs, ours, test_compatibility, show_diffs, history, entry, processed,
                   reported, configuredAtStart, inp, out>>

\* the end of _display_commit_rich and the step of the loop
FinishCommit ==
    IF idx < Len(filtered_commits)
    THEN pc' = "file_changes" /\ idx' = idx + 1 /\ UNCHANGED exitCode
    ELSE Terminate(0) /\ UNCHANGED idx

\* console.print(Panel(...)) and what follows it
PrintPanel ==
    /\ reported' = Append(reported, filtered_commits[idx].hash)
    /\ IF show_diffs
       THEN pc' = "get_diff" /\ UNCHANGED <<idx, exitCode>>
       ELSE FinishCommit

\* _display_commit_rich up to the end of get_commit_file_changes
GetFileChanges ==
    /\ pc = "file_changes"
    /\ \E o \in Outcomes :
         LET commit == filtered_commits[idx]
             result == RunGitCommand(o, TRUE)
             fresh  == [NoEntry EXCEPT !.hash = commit.hash,
                                       !.faults = IF Failing(o) THEN {"diff-tree"} ELSE {}]
         IN  /\ Record({"diff-tree"}, IF Failing(o) THEN {"diff-tree"} ELSE {}, o = "interrupt")
             /\ repo' = GitEffect("diff-tree", o, OtherProject(ours), repo)
             /\ processed' = Append(processed, commit.hash)
             /\ IF result.kind = "return"
                THEN entry' = [fresh EXCEPT !.files = "listed"]
                ELSE IF IsException(result.exc)
                THEN entry' = [fresh EXCEPT !.files = "empty", !.files_error = result.exc]
                ELSE entry' = fresh
             /\ IF result.kind = "return" \/ IsException(result.exc)
                THEN IF test_compatibility
                     THEN pc' = "can_cherry_pick" /\ UNCHANGED <<idx, exitCode, reported>>
                     ELSE PrintPanel
                ELSE Terminate(MainExit(result.exc)) /\ UNCHANGED <<idx, reported>>
    /\ UNCHANGED <<runs, ours, test_compatibility, show_diffs, history, commits,
                   filtered_commits, configuredAtStart, inp, out>>

\* _display_commit_rich: the compatibility test and the panel
CanCherryPick ==
    /\ pc = "can_cherry_pick"
    /\ \E o1 \in Outcomes, o2 \in Outcomes, t \in SampleTranscripts :
         LET res    == CanCherryPickCleanly(o1, o2, t)
             second == MergeTreeIssued(o1)
             fails  == (IF Failing(o1) THEN {"rev-parse"} ELSE {})
                       \cup (IF second /\ Failing(o2) THEN {MergeTreeVerb} ELSE {})
             r1     == GitEffect("rev-parse", o1, OtherProject(ours), repo)
         IN  /\ Record({"rev-parse"} \cup (IF second THEN {MergeTreeVerb} ELSE {}), fails,
                       o1 = "interrupt" \/ (second /\ o2 = "interrupt"))
             /\ repo' = IF second THEN GitEffect(MergeTreeVerb, o2, OtherProject(ours), r1)
                        ELSE r1
             /\ IF res.kind = "return"
                THEN /\ entry' = [entry EXCEPT !.tested = TRUE, !.compat = res.value,
                                               !.faults = @ \cup fails]
                     /\ PrintPanel
                ELSE /\ entry' = [entry EXCEPT !.faults = @ \cup fails]
                     /\ Terminate(MainExit(res.exc))
                     /\ UNCHANGED <<idx, reported>>
    /\ UNCHANGED <<runs, ours, test_compatibility, show_diffs, history, commits,
                   filtered_commits, processed, configuredAtStart, inp, out>>

\* _display_commit_rich: get_commit_diff and the end of the iteration
GetDiff ==
    /\ pc = "get_diff"
    /\ \E o \in Outcomes :
         LET result == RunGitCommand(o, TRUE)
             fails  == IF Failing(o) THEN {"show"} ELSE {}
         IN  /\ Record({"show"}, fails, o = "interrupt")
             /\ repo' = GitEffect("show", o, OtherProject(ours), repo)
             /\ IF result.kind = "return"
                THEN entry' = [entry EXCEPT !.diff = "text", !.faults = @ \cup fails]
                ELSE IF IsException(result.exc)
                THEN entry' = [entry EXCEPT !.diff = "Error getting diff", !.faults = @ \cup fails]
                ELSE entry' = [entry EXCEPT !.faults = @ \cup fails]
             /\ IF result.kind = "return" \/ IsException(result.exc)
                THEN FinishCommit
                ELSE Terminate(MainExit(result.exc)) /\ UNCHANGED idx
    /\ UNCHANGED <<runs, ours, test_compatibility, show_diffs, history, commits,
                   filtered_commits, processed, reported, configuredAtStart, inp, out>>

\* the tool is invoked again on the same repository, with any flags
Rerun ==
    /\ pc = "done"
    /\ runs < MaxRuns
    /\ runs' = runs + 1
    /\ test_compatibility' \in BOOLEAN
    /\ show_diffs' \in BOOLEAN
    /\ pc' = "has_remote"
    /\ commits' = <<>> /\ filtered_commits' = <<>> /\ idx' = 0
    /\ entry' = NoEntry /\ processed' = <<>> /\ reported' = <<>>
    /\ exitCode' = -1 /\ issued' = {} /\ failed' = {} /\ interrupted' = FALSE
    /\ configuredAtStart' = (OtherProject(ours) \in repo.remotes)
    /\ UNCHANGED <<repo, ours, history, inp, out>>

Next ==
    \/ HasRemote
    \/ AddRemote
    \/ FetchRemote
    \/ GetCommits
    \/ GetFileChanges
    \/ CanCherryPick
    \/ GetDiff
    \/ Rerun

Spec == Init /\ [][Next]_vars

\* -------------------------------------------- can_cherry_pick_cleanly alone
Transcripts == UNION {[1..n -> LineClasses] : n \in 0..MaxLines}

IdleRun ==
    /\ runs = 1 /\ ours = "aurora" /\ repo = InitRepo({"origin"})
    /\ test_compatibility = TRUE /\ show_diffs = FALSE /\ history = <<>>
    /\ commits = <<>> /\ filtered_commits = <<>> /\ idx = 0
    /\ entry = NoEntry /\ processed = <<>> /\ reported = <<>>
    /\ exitCode = -1 /\ issued = {} /\ failed = {} /\ interrupted = FALSE
    /\ configuredAtStart = FALSE

InitOracle ==
    /\ IdleRun
    /\ pc = "oracle"
    /\ inp \in [rev : Outcomes, mt : Outcomes, transcript : Transcripts]
    /\ out = NoOut

CallOracle ==
    /\ pc = "oracle"
    /\ out.kind = "none"
    /\ out' = CanCherryPickCleanly(inp.rev, inp.mt, inp.transcript)
    /\ UNCHANGED <<runVars, inp>>

NextOracle == CallOracle

SpecOracle == InitOracle /\ [][NextOracle]_vars

\* ------------------------------------------------- get_commits_since alone
SubjectTokens == {"s", "|", " "}
Subjects   == UNION {[1..n -> SubjectTokens] : n \in 0..MaxSubject}
AuthorNames == { <<"a">>, <<"a", " ">> }

LogRecords ==
    [hash : {<<"h">>}, author : AuthorNames, date : {<<"d">>}, subject : Subjects]

InitParse ==
    /\ IdleRun
    /\ pc = "parse"
    /\ inp \in UNION {[1..n -> LogRecords] : n \in 0..MaxRecords}
    /\ out = NoOut

CallParse ==
    /\ pc = "parse"
    /\ out.kind = "none"
    /\ out' = [kind |-> "return", value |-> ParseLog(LogOutput(inp))]
    /\ UNCHANGED <<runVars, inp>>

NextParse == CallParse

SpecParse == InitParse /\ [][NextParse]_vars

\* ================================================================ claims
\* Verdicts are read from out (SpecOracle), records from out (SpecParse),
\* runs from the run variables (Spec).

\* C1 (as claimed): when merge-tree exits non-zero or cannot be started, or
\* rev-parse cannot be started, the verdict is can_apply = false with no
\* conflicts, method "unknown" and an error text.
C1_FailedSimulationIsUnknown ==
    (out.kind # "none" /\ ((inp.rev = "ok" /\ Failing(inp.mt)) \/ inp.rev = "oserror")) =>
        /\ out.kind = "return"
        /\ out.value.can_apply = FALSE
        /\ out.value.conflicts = <<>>
        /\ out.value.method = "unknown"
        /\ out.value.error # ""

\* C2 (as claimed): a failing diff-tree, show, rev-parse or merge-tree of a
\* commit leaves a diagnostic in that commit's result, does not end the run,
\* and every commit of the filtered sequence is analysed.
C2_PerCommitFaultsSoft ==
    /\ (entry.faults # {} /\ ~interrupted) =>
          /\ exitCode # 1
          /\ "diff-tree" \in entry.faults => (entry.files = "empty" /\ entry.files_error # "")
          /\ "show" \in entry.faults => entry.diff = "Error getting diff"
          /\ entry.faults \cap {"rev-parse", MergeTreeVerb} # {} =>
                (entry.tested /\ ~entry.compat.can_apply /\ entry.compat.error # "")
    /\ (pc = "done" /\ ~interrupted /\ "log" \in issued /\ failed \cap SetupVerbs = {}) =>
          Len(processed) = Len(filtered_commits)

HasMarker(t) == \E i \in 1..Len(t) : t[i].t = "marker"

\* the file of the most recent '+++' header before line i, "" if there is none
HeaderBefore(t, i) ==
    LET ks == {k \in 1..(i - 1) : t[k].t = "plus"}
    IN  IF ks = {} THEN "" ELSE t[CHOOSE k \in ks : \A j \in ks : j <= k].file

MarkedFiles(t) == {HeaderBefore(t, i) : i \in {k \in 1..Len(t) : t[k].t = "marker"}} \ {""}

\* C3 (as claimed): after a successful simulation, a transcript without a
\* marker line gives can_apply = true, no conflicts, method merge-tree; a
\* transcript with marker lines gives can_apply = false and exactly the files
\* whose sections hold a marker.
C3_DecisionPolicy ==
    (out.kind = "return" /\ inp.rev = "ok" /\ inp.mt = "ok") =>
        IF ~HasMarker(inp.transcript)
        THEN /\ out.value.can_apply
             /\ out.value.conflicts = <<>>
             /\ out.value.method = "merge-tree"
        ELSE /\ ~out.value.can_apply
             /\ SeqToSet(out.value.conflicts) = MarkedFiles(inp.transcript)

\* C4: every returned verdict has conflicts only when can_apply is false, and
\* method "unknown" only when can_apply is false.
C4_VerdictInvariant ==
    out.kind = "return" =>
        /\ out.value.conflicts # <<>> => ~out.value.can_apply
        /\ out.value.method = "unknown" => ~out.value.can_apply

C4_Witness ==
    /\ out.kind = "return"
    /\ out.value.conflicts # <<>>
    /\ ~out.value.can_apply
    /\ inp.mt = "ok"

\* some bot pattern occurs in the author at some offset
Excluded(author) ==
    \E p \in bot_authors : \E a \in 0..Len(author) :
        /\ a + Len(p) <= Len(author)
        /\ \A k \in 1..Len(p) : author[a + k] = p[k]

Survivors == {i \in 1..Len(commits) : ~Excluded(commits[i].author)}

NthSurvivor(j) == CHOOSE i \in Survivors : Cardinality({x \in Survivors : x < i}) = j - 1

\* C5: the commits handed to _display_commit_rich are, in order and once
\* each, the commits of the window whose author holds no bot pattern; a run
\* that returns normally has handled and printed all of them.
C5_FilteredInOrder ==
    /\ Len(processed) <= Cardinality(Survivors)
    /\ \A j \in 1..Len(processed) : processed[j] = commits[NthSurvivor(j)].hash
    /\ (pc = "done" /\ exitCode = 0) =>
          (Len(processed) = Cardinality(Survivors) /\ reported = processed)

C5_Witness ==
    /\ pc = "done" /\ exitCode = 0
    /\ Len(commits) = 2
    /\ commits[1].author = <<"my-", "dependabot", "[bot]">>
    /\ processed = <<commits[2].hash>>

\* C6: branch pointer, index and working tree never change, and no command
\* other than the read-only queries, "remote add" and "fetch" is started.
C6_NoRepositoryMutation ==
    /\ repo.head = "tip" /\ repo.index = "clean" /\ repo.worktree = "clean"
    /\ issued \subseteq {"remote", "remote add", "fetch", "log", "diff-tree",
                         "rev-parse", "merge-tree", "show"}

C6_Witness ==
    /\ runs = 2 /\ pc = "done" /\ exitCode = 0
    /\ {"fetch", "merge-tree", "show"} \subseteq issued
    /\ Len(reported) = 2
    /\ OtherProject(ours) \in repo.fetched

\* C7 (as claimed): "remote add" is started only when the remote is not
\* configured, a configured remote never makes the setup fail on the add,
\* and once setup_remote has returned the remote is configured and fetched.
C7_SetupRemoteIdempotent ==
    /\ "remote add" \in issued => ~configuredAtStart
    /\ configuredAtStart => "remote add" \notin failed
    /\ pc \in {"get_commits", "file_changes", "can_cherry_pick", "get_diff"} =>
          ("fetch" \in issued /\ OtherProject(ours) \in repo.remotes)

\* C8: when "remote add", "fetch" or "log" fails the run has ended with
\* status 1 and no per-commit command was started, no commit handled.
C8_SetupFaultsFatal ==
    failed \cap SetupVerbs # {} =>
        /\ pc = "done" /\ exitCode = 1
        /\ processed = <<>> /\ reported = <<>>
        /\ issued \cap PerCommitVerbs = {}

C8_Witness ==
    /\ "fetch" \in failed
    /\ pc = "done" /\ exitCode = 1
    /\ Len(history) = 2 /\ ~IsBot(history[1])

\* C9 (as claimed): an interrupt ends the run at once with status 1, and a
\* run that ends without interrupt and without a failed command ends with 0.
C9_InterruptReachesTop ==
    /\ interrupted => (pc = "done" /\ exitCode = 1)
    /\ (pc = "done" /\ ~interrupted /\ failed = {}) => exitCode = 0

\* C10 (as claimed): the parsed records are the original records, field by
\* field, one per line and in the order of the lines.
C10_ParseExact ==
    out.kind = "return" =>
        /\ Len(out.value) = Len(inp)
        /\ \A i \in 1..Len(inp) : out.value[i] = inp[i]

\* C10 (amended): the same, except that whitespace at the end of the last
\* line's subject is dropped; no output gives no record.
C10_ParseExactButLastTrailingSpace ==
    out.kind = "return" =>
        /\ Len(out.value) = Len(inp)
        /\ \A i \in 1..Len(inp) :
              out.value[i] = IF i = Len(inp)
                             THEN [inp[i] EXCEPT !.subject = RStrip(@)]
                             ELSE inp[i]

C10_Witness ==
    /\ out.kind = "return"
    /\ Len(inp) = 2 /\ Len(out.value) = 2
    /\ inp[1].subject = <<"|", " ">> /\ out.value[1].subject = <<"|", " ">>
    /\ inp[2].subject = <<"|", "|">> /\ out.value[2].subject = <<"|", "|">>

====
